---- MODULE Spec2Model ----
(***************************************************************************)
(* A model of the intrinsic calibration run of opencap-core                *)
(* (main_calcIntrinsicsSony.py), of the files it reads and writes, and of  *)
(* the scripts that read the stored intrinsics back (visualizePickle.py,   *)
(* ViewPickleFiles.py).                                                    *)
(*                                                                         *)
(* A run of the script is a process that walks through the script's        *)
(* statements.  The file system is shared by every process.  A file is a   *)
(* sequence of tokens; pickle and yaml are modelled by the tokens they     *)
(* write and by how they parse them back.                                  *)
(*                                                                         *)
(* computeAverageIntrinsics, saveCameraParameters (utilsCheckerSony) and   *)
(* importMetadata (utils) are called by the script but their code is not   *)
(* part of the sources at hand; they are modelled from the specification   *)
(* (sections 4.2, 4.3, 4.5, 6 and 7).                                      *)
(***************************************************************************)
EXTENDS Integers, Sequences, FiniteSets, TLC

\* ------------------------------------------------------------------ bounds
\* Number of script processes that may exist side by side.
NProcs == 2
\* Total number of runs of the script that are started.
MaxRuns == 2
\* Longest list of arbitrary trials a user enters.
MaxTrials == 2
\* Longest list of trials that agree in image size a user enters.
MaxRepeats == 3
\* Most frames of a TRC file.
MaxFrames == 2
\* Most markers of a TRC file.
MaxMarkers == 2
\* Number of sessions in sessionNames.
MaxSessions == 2
\* Most trial folders of a session.
MaxListing == 3
\* Number of session folders the re-organization copies.
MaxNewSessions == 2
\* Number of runs of the re-organization.
MaxReorgRuns == 2

\* --------------------------------------------------------- program constants
\* computeAverageIntrinsics(..., nImages=50, ...)
nImages == 50
\* Minimum number of valid detections of a trial (specification 4.2).
MinDetections == 10

\* CheckerBoardParams = {'dimensions':(8,11),'squareSize':60}
DefaultCheckerBoardParams ==
    [dimensions |-> <<8, 11>>, squareSize |-> 60]

\* deployedFolderNames = ['Deployed_720_60fps','Deployed']
deployedFolderNames == <<"Deployed_720_60fps", "Deployed">>

\* saveIntrinsicsForDeployment = True
saveIntrinsicsForDeployment == TRUE

\* ---------------------------------------------------------------- the world
Procs == 1 .. NProcs

\* Camera models a user calibrates (cameraModel = "SONYRX0-II-Cam4b").
CameraModels == {"SONYRX0-II-Cam4", "SONYRX0-II-Cam5"}

\* The trial folders of the session directory (trials = ['Cam4b']).
TrialNames == {"Cam4b", "Cam4c", "Cam4d", "Cam4e", "Cam4f"}

\* What the video of each trial holds: the number of frames, the number of
\* them with a complete checkerboard detection, the resolution, and the
\* parameters a fit of its detections yields.
Video(t) ==
    CASE t = "Cam4b" -> [nFrames |-> nImages, nValid |-> MinDetections, imageSize |-> <<1280, 720>>,
                         intrinsicMat |-> <<1000, 1000, 640, 360>>,
                         distortion |-> <<12, 0>>, reprojectionError |-> 2]
      [] t = "Cam4c" -> [nFrames |-> nImages + nImages,
                         nValid |-> nImages + MinDetections, imageSize |-> <<1280, 720>>,
                         intrinsicMat |-> <<1012, 1024, 652, 348>>,
                         distortion |-> <<24, 12>>, reprojectionError |-> 14]
      [] t = "Cam4d" -> [nFrames |-> nImages, nValid |-> MinDetections - 1, imageSize |-> <<1280, 720>>,
                         intrinsicMat |-> <<1000, 1000, 640, 360>>,
                         distortion |-> <<12, 0>>, reprojectionError |-> 2]
      [] t = "Cam4e" -> [nFrames |-> nImages, nValid |-> MinDetections + 2, imageSize |-> <<1920, 1080>>,
                         intrinsicMat |-> <<1000, 1000, 640, 360>>,
                         distortion |-> <<12, 0>>, reprojectionError |-> 2]
      [] OTHER       -> [nFrames |-> nImages, nValid |-> MinDetections + 2, imageSize |-> <<1280, 720>>,
                         intrinsicMat |-> <<0, 1000, 640, 360>>,
                         distortion |-> <<12, 0>>, reprojectionError |-> 2]

\* The checkerboard a sessionMetadata.yaml describes
\* (black2BlackCornersWidth_n, black2BlackCornersHeight_n, squareSideLength_mm).
SessionCheckerBoard ==
    [black2BlackCornersWidth_n |-> 9, black2BlackCornersHeight_n |-> 6,
     squareSideLength_mm |-> 25]

\* The trials whose videos have the same image size and a usable fit.
AgreeingTrials == {"Cam4b", "Cam4c"}

\* The lists of trials a user may enter: 1 to MaxTrials of any trial names,
\* and 1 to MaxRepeats of the trials that agree.
TrialLists ==
    UNION ({[1 .. n -> TrialNames] : n \in 1 .. MaxTrials}
            \cup {[1 .. n -> AgreeingTrials] : n \in 1 .. MaxRepeats})

\* The DeploymentKeys of the intrinsics store: CameraIntrinsics/<model>/<folder>.
DeploymentKeys ==
    {<<m, deployedFolderNames[k]>> : m \in CameraModels, k \in DOMAIN deployedFolderNames}

\* ---------------------------------------------------------------- values
\* Python's None.
None == [none |-> TRUE]

\* A file that does not exist, and a file with the given content.
Absent == [exists |-> FALSE, bytes |-> <<>>]
FileOf(b) == [exists |-> TRUE, bytes |-> b]

\* open(path, 'w') / open(path, 'wb'): the file exists and is empty.
OpenForWriting(f) == FileOf(<<>>)

\* write at offset 0 of an open file, then close: the new tokens replace the
\* first Len(b) tokens; what lies beyond them stays.
WriteAtStart(f, b) ==
    FileOf(b \o (IF Len(f.bytes) > Len(b)
                 THEN SubSeq(f.bytes, Len(b) + 1, Len(f.bytes))
                 ELSE <<>>))

\* ------------------------------------------------------ pickle and yaml
\* The items of a dict, in the order of `keys`.
DictItems(d, keys) == [i \in 1 .. Len(keys) |-> <<keys[i], d[keys[i]]>>]

\* The items of a list: one ("item", element) pair each.
ListItems(l) == [i \in 1 .. Len(l) |-> <<"item", l[i]>>]

\* pickle.dump(obj, f): a protocol header, the items, a STOP opcode.
PickleDump(items) == <<<<"PROTO">>>> \o items \o <<<<"STOP">>>>

\* The place of the first STOP opcode, 0 when there is none.
FirstStop(b) ==
    IF \E i \in 1 .. Len(b) : b[i][1] = "STOP"
    THEN CHOOSE i \in 1 .. Len(b) :
            /\ b[i][1] = "STOP"
            /\ \A j \in 1 .. i - 1 : b[j][1] # "STOP"
    ELSE 0

\* pickle.load(f): reads up to the first STOP opcode and ignores what follows;
\* an empty or headless file, or one without STOP, raises.
PickleLoad(b) ==
    IF Len(b) = 0 \/ b[1][1] # "PROTO" \/ FirstStop(b) = 0
    THEN [ok |-> FALSE, items |-> <<>>]
    ELSE [ok |-> TRUE, items |-> SubSeq(b, 2, FirstStop(b) - 1)]

\* The dict a sequence of (key, value) items builds; a later item wins.
DictOf(items) ==
    [k \in {items[i][1] : i \in 1 .. Len(items)} |->
        LET last == CHOOSE i \in 1 .. Len(items) :
                        /\ items[i][1] = k
                        /\ \A j \in i + 1 .. Len(items) : items[j][1] # k
        IN  items[last][2]]

\* The list a sequence of ("item", element) pairs builds.
ListOf(items) == [i \in 1 .. Len(items) |-> items[i][2]]

\* yaml.dump(trialInfo, f): block style, keys sorted; a list is a header line
\* followed by one "- element" line per element.
YamlDump(info) ==
    <<  <<"cameraModel", info.cameraModel>>,
        <<"nSquaresHeight", info.nSquaresHeight>>,
        <<"nSquaresWidth", info.nSquaresWidth>>,
        <<"squareSize", info.squareSize>>,
        <<"trials">> >>
    \o [i \in 1 .. Len(info.trials) |-> <<"-", info.trials[i]>>]

\* The "- element" lines that follow line i, up to the next line of another kind.
RECURSIVE YamlListAfter(_, _)
YamlListAfter(b, i) ==
    IF i + 1 > Len(b) \/ b[i + 1][1] # "-"
    THEN <<>>
    ELSE <<b[i + 1][2]>> \o YamlListAfter(b, i + 1)

\* yaml.safe_load(f): None for an empty document, else the mapping of its lines.
YamlLoad(b) ==
    IF Len(b) = 0 THEN None
    ELSE [k \in {b[i][1] : i \in {j \in 1 .. Len(b) : b[j][1] # "-"}} |->
            LET last == CHOOSE i \in 1 .. Len(b) :
                            /\ b[i][1] = k
                            /\ \A j \in i + 1 .. Len(b) : b[j][1] # k
            IN  IF Len(b[last]) = 1 THEN YamlListAfter(b, last) ELSE b[last][2]]

\* ----------------------------------------- utilsCheckerSony, from the specification
Min(a, b) == IF a < b THEN a ELSE b

\* The order in which a CameraIntrinsics record is written.
CameraIntrinsicsKeys ==
    <<"intrinsicMat", "distortion", "imageSize", "reprojectionError">>

\* EstimateTrial that counts every frame of the video, detected or not.
EstimateTrialCountingFrames(t, n) ==
    LET v == Video(t) IN
    IF v.nFrames < MinDetections
    THEN [ok |-> FALSE, trial |-> t, error |-> "InsufficientObservations"]
    ELSE IF v.intrinsicMat[1] <= 0 \/ v.intrinsicMat[2] <= 0
    THEN [ok |-> FALSE, trial |-> t, error |-> "IllConditioned"]
    ELSE [ok |-> TRUE, trial |-> t, nObservations |-> Min(v.nFrames, n),
          intrinsics |-> [intrinsicMat |-> v.intrinsicMat,
                          distortion |-> v.distortion,
                          imageSize |-> v.imageSize,
                          reprojectionError |-> v.reprojectionError]]

\* Intrinsic Estimator (4.2): one TrialResult for one trial's video, or the
\* trial-level failure.
EstimateTrial(t, n) ==
    LET v == Video(t) IN
    IF v.nValid < MinDetections
    THEN [ok |-> FALSE, trial |-> t, error |-> "InsufficientObservations"]
    ELSE IF v.intrinsicMat[1] <= 0 \/ v.intrinsicMat[2] <= 0
    THEN [ok |-> FALSE, trial |-> t, error |-> "IllConditioned"]
    ELSE [ok |-> TRUE, trial |-> t, nObservations |-> Min(v.nValid, n),
          intrinsics |-> [intrinsicMat |-> v.intrinsicMat,
                          distortion |-> v.distortion,
                          imageSize |-> v.imageSize,
                          reprojectionError |-> v.reprojectionError]]

RECURSIVE SumSeq(_)
SumSeq(s) == IF s = <<>> THEN 0 ELSE Head(s) + SumSeq(Tail(s))

\* Mean with the divisor one too large.
MeanOffByOne(s) == SumSeq(s) \div (Len(s) + 1)

\* Mean as a running average: each new element is averaged with the average so far.
RECURSIVE RunningMean(_)
RunningMean(s) ==
    IF Len(s) = 1 THEN s[1]
    ELSE (RunningMean(SubSeq(s, 1, Len(s) - 1)) + s[Len(s)]) \div 2

\* Arithmetic mean, every element weighted equally.
Mean(s) == SumSeq(s) \div Len(s)

\* The TrialResults among the outcomes of the trials.
SucceededTrials(outcomes) == SelectSeq(outcomes, LAMBDA o : o.ok)

\* SameImageSize that takes the image size of the first trial for all.
SameImageSizeUnchecked(results) == TRUE

\* Whether all TrialResults have the image size of the first.
SameImageSize(results) ==
    \A i \in 1 .. Len(results) :
        results[i].intrinsics.imageSize = results[1].intrinsics.imageSize

\* Mean of the values weighted by the number of observations of each trial.
WeightedMean(values, weights) ==
    SumSeq([i \in 1 .. Len(values) |-> values[i] * weights[i]]) \div SumSeq(weights)

\* AverageIntrinsics weighted per frame instead of per trial.
AverageIntrinsicsPerFrame(results) ==
    LET w == [i \in 1 .. Len(results) |-> results[i].nObservations] IN
    [intrinsicMat |->
        [j \in 1 .. 4 |-> WeightedMean([i \in 1 .. Len(results) |->
                                    results[i].intrinsics.intrinsicMat[j]], w)],
     distortion |->
        [j \in 1 .. 2 |-> WeightedMean([i \in 1 .. Len(results) |->
                                    results[i].intrinsics.distortion[j]], w)],
     imageSize |-> results[1].intrinsics.imageSize,
     reprojectionError |->
        WeightedMean([i \in 1 .. Len(results) |->
                        results[i].intrinsics.reprojectionError], w)]

\* Trial Aggregator (4.3): per-parameter mean over the TrialResults.
AverageIntrinsics(results) ==
    [intrinsicMat |->
        [j \in 1 .. 4 |-> Mean([i \in 1 .. Len(results) |->
                                    results[i].intrinsics.intrinsicMat[j]])],
     distortion |->
        [j \in 1 .. 2 |-> Mean([i \in 1 .. Len(results) |->
                                    results[i].intrinsics.distortion[j]])],
     imageSize |-> results[1].intrinsics.imageSize,
     reprojectionError |->
        Mean([i \in 1 .. Len(results) |-> results[i].intrinsics.reprojectionError])]

\* IntrinsicComparison: each trial's signed deviation from the aggregate.
CompareIntrinsics(results, avg) ==
    [i \in 1 .. Len(results) |->
        [trial |-> results[i].trial,
         intrinsicMat |-> [j \in 1 .. 4 |->
            results[i].intrinsics.intrinsicMat[j] - avg.intrinsicMat[j]],
         reprojectionError |->
            results[i].intrinsics.reprojectionError - avg.reprojectionError]]

\* Aggregate that gives up as soon as one trial has failed.
AggregateAllOrNothing(outcomes) ==
    LET results == SucceededTrials(outcomes) IN
    IF Len(results) < Len(outcomes)
    THEN [ok |-> FALSE, error |-> "NoTrialSucceeded"]
    ELSE IF ~SameImageSize(results)
    THEN [ok |-> FALSE, error |-> "ImageSizeMismatch"]
    ELSE [ok |-> TRUE,
          CamParamsAverage |-> AverageIntrinsics(results),
          intrinsicComparisons |->
              CompareIntrinsics(results, AverageIntrinsics(results))]

\* What the aggregation of the outcomes of all trials returns: a configuration
\* error before any averaging, or the average and the comparison.
Aggregate(outcomes) ==
    LET results == SucceededTrials(outcomes) IN
    IF results = <<>>
    THEN [ok |-> FALSE, error |-> "NoTrialSucceeded"]
    ELSE IF ~SameImageSize(results)
    THEN [ok |-> FALSE, error |-> "ImageSizeMismatch"]
    ELSE [ok |-> TRUE,
          CamParamsAverage |-> AverageIntrinsics(results),
          intrinsicComparisons |->
              CompareIntrinsics(results, AverageIntrinsics(results))]

\* saveCameraParameters(filename, CameraParams), Calibration Store (4.5): the
\* record is written to a temporary location and moved into its slot; the move
\* is the only change of the slot.
saveCameraParameters(slot, CameraParams) ==
    FileOf(PickleDump(DictItems(CameraParams, CameraIntrinsicsKeys)))

\* importMetadata(metadataPath): the mapping the metadata file holds.
importMetadata(f) == [checkerBoard |-> f.bytes[1]]

\* ------------------------------------------------------------------ state
VARIABLES
    metadataFile,         \* sessionDir/sessionMetadata.yaml
    store,                \* CameraIntrinsics/<model>/<folder>/cameraIntrinsics.pickle
    trialFiles,           \* sessionDir/<trial>/trialInfo.yaml, by trial folder
    comparisonFile,       \* sessionDir/intrinsicComparison.pkl
    nRuns,                \* runs of the script started so far
    readResult,           \* what the last run of a reading script got
    trcDisk,              \* the TRC files on disk, by path
    trcOut,               \* what the last call of trc_2_dict got
    script,               \* which of the two processing scripts is run
    scriptPc,             \* the statement the processing script is at
    scriptError,          \* the exception that ended it
    count,                \* sessions of sessionNames entered so far
    trials_tmp,           \* the processing script's variables
    extrinsics_idx,       \* (an index is 1-based here, 0 an unbound name)
    static_idx,
    sessionTrials,        \* the script's list trials of the session
    trialNo,              \* place of the loop over trials
    calls,                \* the calls of process_trial of the session
    newSessions,          \* dataDir/Data/<subject>_<session>, by session
    reorgPc,              \* the statement the data re-organization is at
    reorgSession,         \* place of its loop over the sessions
    reorgStep,            \* place within the statements for one session
    reorgRuns,            \* runs of the re-organization started so far
    pc,                   \* the statement each script process is at
    cameraModel,          \* the script's variables, per process
    trials,
    loadTrialInfo,
    CheckerBoardParams,
    trialFile,
    sessionMetadata,
    CamParamList,
    CamParamsAverage,
    intrinsicComparisons,
    deployedIdx,
    error

files == <<metadataFile, store, trialFiles, comparisonFile>>
locals == <<cameraModel, trials, loadTrialInfo, CheckerBoardParams, trialFile,
            sessionMetadata, CamParamList, CamParamsAverage, intrinsicComparisons, deployedIdx, error>>
calibration == <<files, nRuns, readResult, pc, locals>>
trcVars == <<trcDisk, trcOut>>
sessVars == <<script, scriptPc, scriptError, count, trials_tmp, extrinsics_idx,
              static_idx, sessionTrials, trialNo, calls>>
reorgVars == <<newSessions, reorgPc, reorgSession, reorgStep, reorgRuns>>
otherScripts == <<trcVars, sessVars, reorgVars>>
vars == <<calibration, otherScripts>>

\* The inputs a user sets at the top of the script (lines 18-31).
UserInputs ==
    [cameraModel : CameraModels, trials : TrialLists, loadTrialInfo : BOOLEAN]

\* The inputs of the runs whose stored records are read back.
ReaderInputs ==
    {c \in UserInputs :
        /\ Len(c.trials) <= MaxTrials
        /\ \A i \in 1 .. Len(c.trials) : c.trials[i] \in {"Cam4b", "Cam4c", "Cam4e"}}

\* The inputs of the runs that are started side by side.
ParallelInputs ==
    {c \in UserInputs :
        /\ Len(c.trials) <= MaxTrials
        /\ \A i \in 1 .. Len(c.trials) : c.trials[i] \in AgreeingTrials}

NoRead == [reader |-> "none"]

CalibrationInit ==
    /\ metadataFile = Absent
    /\ store = [k \in DeploymentKeys |-> Absent]
    /\ trialFiles = [t \in TrialNames |-> Absent]
    /\ comparisonFile = Absent
    /\ nRuns = 0
    /\ readResult = NoRead
    /\ pc = [p \in Procs |-> "idle"]
    /\ cameraModel = [p \in Procs |-> "none"]
    /\ trials = [p \in Procs |-> <<>>]
    /\ loadTrialInfo = [p \in Procs |-> FALSE]
    /\ CheckerBoardParams = [p \in Procs |-> DefaultCheckerBoardParams]
    /\ trialFile = [p \in Procs |-> "none"]
    /\ sessionMetadata = [p \in Procs |-> None]
    /\ CamParamList = [p \in Procs |-> <<>>]
    /\ CamParamsAverage = [p \in Procs |-> None]
    /\ intrinsicComparisons = [p \in Procs |-> <<>>]
    /\ deployedIdx = [p \in Procs |-> 1]
    /\ error = [p \in Procs |-> "none"]

\* No call of trc_2_dict has been made.
NoCall == [path |-> "none"]

\* No TRC file is read.
TrcIdle ==
    /\ trcDisk = <<>>
    /\ trcOut = NoCall

\* The processing script stands before its loop over the sessions (ThreeCameras
\* line 247, TwoCameras line 135): no index is bound yet.
SessionsInit ==
    /\ scriptPc = "session"
    /\ scriptError = "none"
    /\ count = 0
    /\ trials_tmp = <<>>
    /\ extrinsics_idx = 0
    /\ static_idx = 0
    /\ sessionTrials = <<>>
    /\ trialNo = 0
    /\ calls = <<>>

\* No processing script is run.
SessionsIdle == script = "none" /\ SessionsInit

\* A session folder that does not exist.
NoFolder == [exists |-> FALSE, metadata |-> "none", videos |-> {}, parameters |-> {}]

\* The data have not been re-organized.
ReorgInit ==
    /\ newSessions = [n \in 1 .. MaxNewSessions |-> NoFolder]
    /\ reorgPc = "idle"
    /\ reorgSession = 0
    /\ reorgStep = 0
    /\ reorgRuns = 0

\* The other scripts of the repository are not run.
OtherScriptsIdle == TrcIdle /\ SessionsIdle /\ ReorgInit

Init == CalibrationInit /\ OtherScriptsIdle

\* The process is not in the middle of a run.
Stopped(p) == pc[p] \in {"idle", "done", "failed"}

\* --------------------------------------------- main_calcIntrinsicsSony.py
\* The script is started with the user's inputs: lines 18-37.
StartRun(p, inputs) ==
    /\ Stopped(p)
    /\ nRuns < MaxRuns
    /\ \E c \in inputs :
        /\ cameraModel' = [cameraModel EXCEPT ![p] = c.cameraModel]
        /\ trials' = [trials EXCEPT ![p] = c.trials]
        /\ loadTrialInfo' = [loadTrialInfo EXCEPT ![p] = c.loadTrialInfo]
        /\ trialFile' = [trialFile EXCEPT ![p] = c.trials[1]]
    /\ CheckerBoardParams' = [CheckerBoardParams EXCEPT ![p] = DefaultCheckerBoardParams]
    /\ sessionMetadata' = [sessionMetadata EXCEPT ![p] = None]
    /\ CamParamList' = [CamParamList EXCEPT ![p] = <<>>]
    /\ CamParamsAverage' = [CamParamsAverage EXCEPT ![p] = None]
    /\ intrinsicComparisons' = [intrinsicComparisons EXCEPT ![p] = <<>>]
    /\ deployedIdx' = [deployedIdx EXCEPT ![p] = 1]
    /\ error' = [error EXCEPT ![p] = "none"]
    /\ nRuns' = nRuns + 1
    /\ pc' = [pc EXCEPT ![p] = "metadata"]
    /\ UNCHANGED <<files, readResult>>

\* The exception ends the script: nothing after the raising statement runs.
Raise(p, e) ==
    /\ pc' = [pc EXCEPT ![p] = "failed"]
    /\ error' = [error EXCEPT ![p] = e]

\* Lines 47-49: the checkerboard parameters of a loaded sessionMetadata.
CheckerBoardParamsOf(metadata) ==
    [dimensions |-> <<metadata["checkerBoard"]["black2BlackCornersWidth_n"],
                      metadata["checkerBoard"]["black2BlackCornersHeight_n"]>>,
     squareSize |-> metadata["checkerBoard"]["squareSideLength_mm"]]

\* ReadMetadata with the width and the height of the checkerboard exchanged.
ReadMetadataSwapped(p) ==
    /\ pc[p] = "metadata"
    /\ IF metadataFile.exists
       THEN /\ sessionMetadata' =
                    [sessionMetadata EXCEPT ![p] = importMetadata(metadataFile)]
            /\ CheckerBoardParams' = [CheckerBoardParams EXCEPT ![p] =
                    [dimensions |->
                        <<CheckerBoardParamsOf(importMetadata(metadataFile)).dimensions[2],
                          CheckerBoardParamsOf(importMetadata(metadataFile)).dimensions[1]>>,
                     squareSize |->
                        CheckerBoardParamsOf(importMetadata(metadataFile)).squareSize]]
       ELSE UNCHANGED <<sessionMetadata, CheckerBoardParams>>
    /\ pc' = [pc EXCEPT ![p] = "loadTrialInfo"]
    /\ UNCHANGED <<files, nRuns, readResult, cameraModel, trials, loadTrialInfo,
                   trialFile, CamParamList, CamParamsAverage, intrinsicComparisons,
                   deployedIdx, error>>

\* Lines 42-50: the checkerboard parameters are replaced when the metadata exists.
ReadMetadata(p) ==
    /\ pc[p] = "metadata"
    /\ IF metadataFile.exists
       THEN /\ sessionMetadata' =
                    [sessionMetadata EXCEPT ![p] = importMetadata(metadataFile)]
            /\ CheckerBoardParams' = [CheckerBoardParams EXCEPT ![p] =
                    CheckerBoardParamsOf(importMetadata(metadataFile))]
       ELSE UNCHANGED <<sessionMetadata, CheckerBoardParams>>
    /\ pc' = [pc EXCEPT ![p] = "loadTrialInfo"]
    /\ UNCHANGED <<files, nRuns, readResult, cameraModel, trials, loadTrialInfo,
                   trialFile, CamParamList, CamParamsAverage, intrinsicComparisons,
                   deployedIdx, error>>

\* LoadTrialInfo that falls back to the entered trials when trialFile is missing.
LoadTrialInfoOrEntered(p) ==
    /\ pc[p] = "loadTrialInfo"
    /\ IF ~loadTrialInfo[p] \/ ~trialFiles[trialFile[p]].exists
       THEN /\ pc' = [pc EXCEPT ![p] = "estimate"]
            /\ UNCHANGED <<trials, CheckerBoardParams, error>>
       ELSE LET trialInfo == YamlLoad(trialFiles[trialFile[p]].bytes) IN
            IF trialInfo = None
            THEN /\ Raise(p, "TypeError")
                 /\ UNCHANGED <<trials, CheckerBoardParams>>
            ELSE IF ~({"trials", "nSquaresWidth", "nSquaresHeight", "squareSize"}
                        \subseteq DOMAIN trialInfo)
            THEN /\ Raise(p, "KeyError")
                 /\ UNCHANGED <<trials, CheckerBoardParams>>
            ELSE /\ trials' = [trials EXCEPT ![p] = trialInfo["trials"]]
                 /\ CheckerBoardParams' = [CheckerBoardParams EXCEPT ![p] =
                        [dimensions |-> <<trialInfo["nSquaresWidth"],
                                          trialInfo["nSquaresHeight"]>>,
                         squareSize |-> trialInfo["squareSize"]]]
                 /\ pc' = [pc EXCEPT ![p] = "estimate"]
                 /\ UNCHANGED error
    /\ UNCHANGED <<files, nRuns, readResult, cameraModel, loadTrialInfo, trialFile,
                   sessionMetadata, CamParamList, CamParamsAverage,
                   intrinsicComparisons, deployedIdx>>

\* LoadTrialInfo that takes the dimensions from trialInfo and leaves the
\* square size as it was.
LoadTrialInfoDimensionsOnly(p) ==
    /\ pc[p] = "loadTrialInfo"
    /\ IF ~loadTrialInfo[p]
       THEN /\ pc' = [pc EXCEPT ![p] = "estimate"]
            /\ UNCHANGED <<trials, CheckerBoardParams, error>>
       ELSE IF ~trialFiles[trialFile[p]].exists
       THEN /\ Raise(p, "Exception: trialFile doesnt exist")
            /\ UNCHANGED <<trials, CheckerBoardParams>>
       ELSE LET trialInfo == YamlLoad(trialFiles[trialFile[p]].bytes) IN
            IF trialInfo = None
            THEN /\ Raise(p, "TypeError")
                 /\ UNCHANGED <<trials, CheckerBoardParams>>
            ELSE IF ~({"trials", "nSquaresWidth", "nSquaresHeight", "squareSize"}
                        \subseteq DOMAIN trialInfo)
            THEN /\ Raise(p, "KeyError")
                 /\ UNCHANGED <<trials, CheckerBoardParams>>
            ELSE /\ trials' = [trials EXCEPT ![p] = trialInfo["trials"]]
                 /\ CheckerBoardParams' = [CheckerBoardParams EXCEPT ![p] =
                        [dimensions |-> <<trialInfo["nSquaresWidth"],
                                          trialInfo["nSquaresHeight"]>>,
                         squareSize |-> CheckerBoardParams[p].squareSize]]
                 /\ pc' = [pc EXCEPT ![p] = "estimate"]
                 /\ UNCHANGED error
    /\ UNCHANGED <<files, nRuns, readResult, cameraModel, loadTrialInfo, trialFile,
                   sessionMetadata, CamParamList, CamParamsAverage,
                   intrinsicComparisons, deployedIdx>>

\* The keys line 56-60 look up in the loaded trialInfo.
TrialInfoKeys == {"trials", "nSquaresWidth", "nSquaresHeight", "squareSize"}

\* Lines 52-62: the trial list and the checkerboard parameters of the manifest.
LoadTrialInfo(p) ==
    /\ pc[p] = "loadTrialInfo"
    /\ IF ~loadTrialInfo[p]
       THEN /\ pc' = [pc EXCEPT ![p] = "estimate"]
            /\ UNCHANGED <<trials, CheckerBoardParams, error>>
       ELSE IF ~trialFiles[trialFile[p]].exists
       THEN /\ Raise(p, "Exception: trialFile doesnt exist")
            /\ UNCHANGED <<trials, CheckerBoardParams>>
       ELSE LET trialInfo == YamlLoad(trialFiles[trialFile[p]].bytes) IN
            IF trialInfo = None
            THEN /\ Raise(p, "TypeError")
                 /\ UNCHANGED <<trials, CheckerBoardParams>>
            ELSE IF ~(TrialInfoKeys \subseteq DOMAIN trialInfo)
            THEN /\ Raise(p, "KeyError")
                 /\ UNCHANGED <<trials, CheckerBoardParams>>
            ELSE /\ trials' = [trials EXCEPT ![p] = trialInfo["trials"]]
                 /\ CheckerBoardParams' = [CheckerBoardParams EXCEPT ![p] =
                        [dimensions |-> <<trialInfo["nSquaresWidth"],
                                          trialInfo["nSquaresHeight"]>>,
                         squareSize |-> trialInfo["squareSize"]]]
                 /\ pc' = [pc EXCEPT ![p] = "estimate"]
                 /\ UNCHANGED error
    /\ UNCHANGED <<files, nRuns, readResult, cameraModel, loadTrialInfo, trialFile,
                   sessionMetadata, CamParamList, CamParamsAverage,
                   intrinsicComparisons, deployedIdx>>

\* Line 66, inside computeAverageIntrinsics: the next trial of the list is
\* estimated; the aggregation is entered when every trial has its outcome.
EstimateNextTrial(p) ==
    /\ pc[p] = "estimate"
    /\ Len(CamParamList[p]) < Len(trials[p])
    /\ CamParamList' = [CamParamList EXCEPT ![p] =
            Append(@, EstimateTrial(trials[p][Len(@) + 1], nImages))]
    /\ pc' = [pc EXCEPT ![p] =
            IF Len(CamParamList[p]) + 1 = Len(trials[p]) THEN "aggregate" ELSE @]
    /\ UNCHANGED <<files, nRuns, readResult, cameraModel, trials, loadTrialInfo,
                   CheckerBoardParams, trialFile, sessionMetadata, CamParamsAverage,
                   intrinsicComparisons, deployedIdx, error>>

\* Line 66: computeAverageIntrinsics returns the average and the comparison,
\* or raises and ends the script.
AggregateTrials(p) ==
    /\ pc[p] = "aggregate"
    /\ LET r == Aggregate(CamParamList[p]) IN
       IF r.ok
       THEN /\ CamParamsAverage' = [CamParamsAverage EXCEPT ![p] = r.CamParamsAverage]
            /\ intrinsicComparisons' =
                    [intrinsicComparisons EXCEPT ![p] = r.intrinsicComparisons]
            /\ pc' = [pc EXCEPT ![p] =
                    IF saveIntrinsicsForDeployment THEN "save" ELSE "openTrialFile"]
            /\ UNCHANGED error
       ELSE /\ Raise(p, r.error)
            /\ UNCHANGED <<CamParamsAverage, intrinsicComparisons>>
    /\ UNCHANGED <<files, nRuns, readResult, cameraModel, trials, loadTrialInfo,
                   CheckerBoardParams, trialFile, sessionMetadata, CamParamList,
                   deployedIdx>>

\* SaveIntrinsicsForDeployment moved into the loop over the trials: the
\* intrinsics of the trial just estimated are saved, before any aggregation.
SaveIntrinsicsOfLatestTrial(p) ==
    /\ pc[p] \in {"estimate", "aggregate"}
    /\ Len(CamParamList[p]) > 0
    /\ CamParamList[p][Len(CamParamList[p])].ok
    /\ store' = [store EXCEPT ![<<cameraModel[p], deployedFolderNames[deployedIdx[p]]>>] =
                    saveCameraParameters(@,
                        CamParamList[p][Len(CamParamList[p])].intrinsics)]
    /\ UNCHANGED <<metadataFile, trialFiles, comparisonFile, nRuns, readResult, pc,
                   locals>>

\* Lines 70-75: the average is saved under the next deployed folder name.
SaveIntrinsicsForDeployment(p) ==
    /\ pc[p] = "save"
    /\ LET permIntrinsicDir == <<cameraModel[p], deployedFolderNames[deployedIdx[p]]>> IN
       store' = [store EXCEPT ![permIntrinsicDir] =
                    saveCameraParameters(@, CamParamsAverage[p])]
    /\ IF deployedIdx[p] < Len(deployedFolderNames)
       THEN /\ deployedIdx' = [deployedIdx EXCEPT ![p] = @ + 1]
            /\ UNCHANGED pc
       ELSE /\ pc' = [pc EXCEPT ![p] = "openTrialFile"]
            /\ UNCHANGED deployedIdx
    /\ UNCHANGED <<metadataFile, trialFiles, comparisonFile, nRuns, readResult,
                   cameraModel, trials, loadTrialInfo, CheckerBoardParams, trialFile,
                   sessionMetadata, CamParamList, CamParamsAverage,
                   intrinsicComparisons, error>>

\* Lines 78-82: the trial manifest of the run.
TrialInfoOf(p) ==
    [trials |-> trials[p],
     nSquaresWidth |-> CheckerBoardParams[p].dimensions[1],
     nSquaresHeight |-> CheckerBoardParams[p].dimensions[2],
     squareSize |-> CheckerBoardParams[p].squareSize,
     cameraModel |-> cameraModel[p]]

\* Line 83: open(trialFile, 'w').
OpenTrialFile(p) ==
    /\ pc[p] = "openTrialFile"
    /\ trialFiles' = [trialFiles EXCEPT ![trialFile[p]] = OpenForWriting(@)]
    /\ pc' = [pc EXCEPT ![p] = "dumpTrialFile"]
    /\ UNCHANGED <<metadataFile, store, comparisonFile, nRuns, readResult, locals>>

\* Line 84: yaml.dump(trialInfo, f), and the file is closed.
DumpTrialFile(p) ==
    /\ pc[p] = "dumpTrialFile"
    /\ trialFiles' = [trialFiles EXCEPT ![trialFile[p]] =
            WriteAtStart(@, YamlDump(TrialInfoOf(p)))]
    /\ pc' = [pc EXCEPT ![p] = "openComparison"]
    /\ UNCHANGED <<metadataFile, store, comparisonFile, nRuns, readResult, locals>>

\* Line 86: open(intrinsicComparisonFile, 'wb').
OpenComparisonFile(p) ==
    /\ pc[p] = "openComparison"
    /\ comparisonFile' = OpenForWriting(comparisonFile)
    /\ pc' = [pc EXCEPT ![p] = "dumpComparison"]
    /\ UNCHANGED <<metadataFile, store, trialFiles, nRuns, readResult, locals>>

\* Line 87: pickle.dump(intrinsicComparisons, f), and the file is closed.
DumpComparisonFile(p) ==
    /\ pc[p] = "dumpComparison"
    /\ comparisonFile' =
            WriteAtStart(comparisonFile, PickleDump(ListItems(intrinsicComparisons[p])))
    /\ pc' = [pc EXCEPT ![p] = "done"]
    /\ UNCHANGED <<metadataFile, store, trialFiles, nRuns, readResult, locals>>

\* A sessionMetadata.yaml is put into the session directory.
PutSessionMetadata ==
    /\ ~metadataFile.exists
    /\ metadataFile' = FileOf(<<SessionCheckerBoard>>)
    /\ UNCHANGED <<store, trialFiles, comparisonFile, nRuns, readResult, pc, locals>>

\* ------------------------------------------------------ the reading scripts
\* load_intrinsics_from_pickle that keeps only the first entry of the dict.
load_intrinsics_first_entry(f) ==
    IF ~f.exists THEN None
    ELSE IF ~PickleLoad(f.bytes).ok THEN None
    ELSE DictOf(SubSeq(PickleLoad(f.bytes).items, 1, 1))

\* A record with every field zero.
ZeroIntrinsics ==
    [intrinsicMat |-> <<0, 0, 0, 0>>, distortion |-> <<0, 0>>,
     imageSize |-> <<0, 0>>, reprojectionError |-> 0]

\* load_intrinsics_from_pickle with a default record for a file not found.
load_intrinsics_or_default(f) ==
    IF ~f.exists THEN ZeroIntrinsics
    ELSE IF ~PickleLoad(f.bytes).ok THEN None
    ELSE DictOf(PickleLoad(f.bytes).items)

\* visualizePickle.py, load_intrinsics_from_pickle(filepath): the dict of the
\* pickle, None when the file is not found or cannot be loaded.
load_intrinsics_from_pickle(f) ==
    IF ~f.exists THEN None
    ELSE IF ~PickleLoad(f.bytes).ok THEN None
    ELSE DictOf(PickleLoad(f.bytes).items)

\* ViewPickleFiles.py, lines 11-12: open and pickle.load; an exception is not
\* caught and ends the script.
ViewPickleFile(f) ==
    IF ~f.exists THEN [raised |-> "FileNotFoundError"]
    ELSE IF ~PickleLoad(f.bytes).ok THEN [raised |-> "UnpicklingError"]
    ELSE DictOf(PickleLoad(f.bytes).items)

\* visualizePickle.py, lines 109-112: the Deployed intrinsics of a camera are loaded.
VisualizePickle(m) ==
    /\ readResult' = [reader |-> "visualizePickle", key |-> <<m, "Deployed">>,
                      value |-> load_intrinsics_from_pickle(store[<<m, "Deployed">>])]
    /\ UNCHANGED <<files, nRuns, pc, locals>>

\* ViewPickleFiles.py, lines 10-15: the Deployed_720_60fps intrinsics of a camera.
ViewPickleFiles(m) ==
    /\ readResult' = [reader |-> "ViewPickleFiles", key |-> <<m, "Deployed_720_60fps">>,
                      value |-> ViewPickleFile(store[<<m, "Deployed_720_60fps">>])]
    /\ UNCHANGED <<files, nRuns, pc, locals>>

\* ------------------------------------------------------------ storage faults
\* SaveWriteFails with the exception caught and reported inside the loop: the
\* loop goes on with the next deployed folder.
SaveWriteFailureReported(p) ==
    /\ pc[p] = "save"
    /\ error' = [error EXCEPT ![p] = "OSError"]
    /\ IF deployedIdx[p] < Len(deployedFolderNames)
       THEN /\ deployedIdx' = [deployedIdx EXCEPT ![p] = @ + 1]
            /\ UNCHANGED pc
       ELSE /\ pc' = [pc EXCEPT ![p] = "openTrialFile"]
            /\ UNCHANGED deployedIdx
    /\ UNCHANGED <<files, nRuns, readResult, cameraModel, trials, loadTrialInfo,
                   CheckerBoardParams, trialFile, sessionMetadata, CamParamList,
                   CamParamsAverage, intrinsicComparisons>>

\* Lines 70-75 when saveCameraParameters cannot write: the exception is not
\* caught and ends the script; the record under the key stays as it was.
SaveWriteFails(p) ==
    /\ pc[p] = "save"
    /\ Raise(p, "OSError")
    /\ UNCHANGED <<files, nRuns, readResult, cameraModel, trials, loadTrialInfo,
                   CheckerBoardParams, trialFile, sessionMetadata, CamParamList,
                   CamParamsAverage, intrinsicComparisons, deployedIdx>>

\* A stored intrinsics record becomes unreadable: its file loses its end.
CorruptRecord(k) ==
    /\ store[k].exists
    /\ PickleLoad(store[k].bytes).ok
    /\ store' = [store EXCEPT ![k] =
                    FileOf(SubSeq(store[k].bytes, 1, Len(store[k].bytes) - 1))]
    /\ UNCHANGED <<metadataFile, trialFiles, comparisonFile, nRuns, readResult, pc,
                   locals>>

\* --------------------------------------------------------------- utilsTRC.py
\* The paths trc_2_dict is called with.
TrcPaths == {"walking.trc", "squat.trc"}

\* The marker names of the TRC files.
MarkerNames == {"RKnee", "LKnee", "C7"}

\* The elements of a sequence.
Range(s) == {s[i] : i \in DOMAIN s}

\* The header rows of marker names: up to MaxMarkers different names.
MarkerRows ==
    {ns \in UNION {[1 .. n -> MarkerNames] : n \in 0 .. MaxMarkers} :
        \A i, j \in DOMAIN ns : ns[i] = ns[j] => i = j}

\* What a path may hold: nothing, or a TRC file of some markers and frames.
TrcFiles ==
    {[exists |-> FALSE]} \cup
    [exists : {TRUE}, marker_names : MarkerRows, num_frames : 0 .. MaxFrames]

\* utilsDataman.TRCFile(fpath): the time column and the marker names of the
\* file; marker(name) gives the n_frames x 3 coordinates of the marker.
TRCFile(f) ==
    [time |-> [i \in 1 .. f.num_frames |-> i],
     marker_names |-> f.marker_names,
     marker |-> [name \in Range(f.marker_names) |->
                    [i \in 1 .. f.num_frames |-> <<name, i, "x", "y", "z">>]]]

\* d[k] = v on a dict.
SetItem(d, k, v) ==
    [x \in DOMAIN d \cup {k} |-> IF x = k THEN v ELSE d[x]]

\* Lines 24-26: markers after the loop over the first n marker names.
RECURSIVE MarkersLoop(_, _)
MarkersLoop(trc, n) ==
    IF n = 0 THEN <<>>
    ELSE SetItem(MarkersLoop(trc, n - 1), trc.marker_names[n],
                 trc.marker[trc.marker_names[n]])

\* trc_2_dict without the test of line 18, on a reader that gives an empty
\* file for a path that does not exist.
trc_2_dict_unchecked(f) ==
    IF ~f.exists
    THEN SetItem(SetItem(<<>>, "time", <<>>), "markers", <<>>)
    ELSE SetItem(SetItem(<<>>, "time", TRCFile(f).time),
                 "markers", MarkersLoop(TRCFile(f), Len(TRCFile(f).marker_names)))

\* trc_2_dict(trc_path), lines 9-28.
trc_2_dict(f) ==
    IF ~f.exists
    THEN [raised |-> "FileNotFoundError"]
    ELSE LET trc == TRCFile(f)
             out == SetItem(<<>>, "time", trc.time)
             markers == MarkersLoop(trc, Len(trc.marker_names))
         IN  SetItem(out, "markers", markers)

\* A script calls trc_2_dict with a path.
Call_trc_2_dict(path) ==
    /\ trcOut' = [path |-> path, value |-> trc_2_dict(trcDisk[path])]
    /\ UNCHANGED <<trcDisk, calibration, sessVars, reorgVars>>

\* The TRC files on disk when the calls are made.
TrcInit ==
    /\ trcDisk \in [TrcPaths -> TrcFiles]
    /\ trcOut = NoCall

\* ------------------------------------------ ReproducePaperResults, processing
\* The two scripts that process the sessions.
Scripts == {"ThreeCameras", "TwoCameras"}

\* The words a trial folder name contains, in lower case.
NameWords ==
    [extrinsics |-> {"extrinsics"},
     Extrinsics_retake |-> {"extrinsics"},
     static |-> {"static"},
     static_extrinsics |-> {"static", "extrinsics"},
     squats |-> {},
     walking |-> {}]

\* The names of the trial folders of a session.
SessionTrialNames == DOMAIN NameWords

\* word in trial.lower()
HasWord(trial, word) == word \in NameWords[trial]

\* What os.listdir gives for pathCam0, its folders only: different names, in
\* any order.
Listings ==
    {l \in UNION {[1 .. n -> SessionTrialNames] : n \in 0 .. MaxListing} :
        \A i, j \in DOMAIN l : l[i] = l[j] => i = j}

\* The index the loop of lines 257-262 leaves: that of the last trial with the
\* word, or the index the variable had before when no trial has it.
IndexAfterLoop(l, word, before) ==
    IF \E i \in DOMAIN l : HasWord(l[i], word)
    THEN CHOOSE i \in DOMAIN l :
            /\ HasWord(l[i], word)
            /\ \A j \in DOMAIN l : HasWord(l[j], word) => j <= i
    ELSE before

\* ThreeCameras, line 256 and line 262: both assignments give True.
session_with_static == TRUE

\* The exception of the lookup trials_tmp[idx], "none" when it succeeds.
LookupError(l, idx) ==
    IF idx = 0 THEN "NameError"
    ELSE IF idx > Len(l) THEN "IndexError"
    ELSE "none"

\* ThreeCameras lines 257-273, TwoCameras lines 144-150: the indices after the
\* loop and the list trials, or the exception raised on the way.
BuildTrials(sc, l, e_before, s_before) ==
    LET e == IndexAfterLoop(l, "extrinsics", e_before)
        s == IF sc = "ThreeCameras" THEN IndexAfterLoop(l, "static", s_before)
             ELSE s_before
    IN  IF LookupError(l, e) # "none"
        THEN [extrinsics_idx |-> e, static_idx |-> s, raised |-> LookupError(l, e)]
        ELSE IF sc = "ThreeCameras" /\ session_with_static
        THEN IF LookupError(l, s) # "none"
             THEN [extrinsics_idx |-> e, static_idx |-> s, raised |-> LookupError(l, s)]
             ELSE [extrinsics_idx |-> e, static_idx |-> s, raised |-> "none",
                   trials |-> <<l[e], l[s]>> \o
                        SelectSeq(l, LAMBDA t : /\ ~HasWord(t, "static")
                                                /\ ~HasWord(t, "extrinsics"))]
        ELSE [extrinsics_idx |-> e, static_idx |-> s, raised |-> "none",
              trials |-> <<l[e]>> \o SelectSeq(l, LAMBDA t : ~HasWord(t, "extrinsics"))]

\* The next session of sessionNames is entered: its folder is listed and its
\* list of trials is built.
EnterSession ==
    /\ scriptPc = "session"
    /\ count < MaxSessions
    /\ \E l \in Listings :
        LET b == BuildTrials(script, l, extrinsics_idx, static_idx) IN
        /\ trials_tmp' = l
        /\ extrinsics_idx' = b.extrinsics_idx
        /\ static_idx' = b.static_idx
        /\ IF b.raised # "none"
           THEN /\ scriptPc' = "failed"
                /\ scriptError' = b.raised
                /\ sessionTrials' = <<>>
           ELSE /\ scriptPc' = "trial"
                /\ sessionTrials' = b.trials
                /\ UNCHANGED scriptError
    /\ count' = count + 1
    /\ trialNo' = 1
    /\ calls' = <<>>
    /\ UNCHANGED <<script, calibration, trcVars, reorgVars>>

\* ThreeCameras lines 301-332, TwoCameras lines 174-199: the next trial of the
\* list is processed in the role its name gives it.
ProcessTrial ==
    /\ scriptPc = "trial"
    /\ trialNo <= Len(sessionTrials)
    /\ LET trial == sessionTrials[trialNo] IN
       calls' = Append(calls,
            [trial_name |-> trial,
             extrinsicsTrial |-> HasWord(trial, "extrinsics"),
             scaleModel |-> IF script = "ThreeCameras" THEN HasWord(trial, "static")
                            ELSE FALSE])
    /\ trialNo' = trialNo + 1
    /\ UNCHANGED <<script, scriptPc, scriptError, count, trials_tmp, extrinsics_idx,
                   static_idx, sessionTrials, calibration, trcVars, reorgVars>>

\* The loop over the trials of the session has ended.
LeaveSession ==
    /\ scriptPc = "trial"
    /\ trialNo > Len(sessionTrials)
    /\ scriptPc' = IF count < MaxSessions THEN "session" ELSE "done"
    /\ UNCHANGED <<script, scriptError, count, trials_tmp, extrinsics_idx, static_idx,
                   sessionTrials, trialNo, calls, calibration, trcVars, reorgVars>>

\* ---------------------------------- ReproducePaperResults, data re-organization
\* Line 173 (TwoCameras line 61).
overwriteRestructuring == FALSE

\* The camera folders of a session and the trial folders of a camera.
SessionCams == {"Cam1", "Cam4"}
CamTrials == {"extrinsics", "squats"}

\* The statements of lines 185-214 for one session, in the order they are
\* executed: the folder, the metadata, and for every camera its videos and
\* its camera parameters.
CamStatements(cam) ==
    <<  [op |-> "copyVideo", cam |-> cam, trial |-> "extrinsics"],
        [op |-> "copyVideo", cam |-> cam, trial |-> "squats"],
        [op |-> "copyParameters", cam |-> cam] >>

SessionStatements ==
    <<[op |-> "makedirs"], [op |-> "copyMetadata"], [op |-> "dumpMetadata"]>>
    \o CamStatements("Cam1") \o CamStatements("Cam4")

\* The statements that copy a file.
IsCopy(st) == st.op \in {"copyMetadata", "copyVideo", "copyParameters"}

\* The session folder after the statement.
AfterStatement(folder, st) ==
    IF st.op = "makedirs" THEN [folder EXCEPT !.exists = TRUE]
    ELSE IF st.op = "copyMetadata" THEN [folder EXCEPT !.metadata = "copied"]
    ELSE IF st.op = "dumpMetadata" THEN [folder EXCEPT !.metadata = "adjusted"]
    ELSE IF st.op = "copyVideo"
    THEN [folder EXCEPT !.videos = @ \cup {<<st.cam, st.trial>>}]
    ELSE [folder EXCEPT !.parameters = @ \cup {st.cam}]

\* The script is run: its loop over the sessions starts at line 175.
StartReorg ==
    /\ reorgPc \in {"idle", "done", "failed"}
    /\ reorgRuns < MaxReorgRuns
    /\ reorgRuns' = reorgRuns + 1
    /\ reorgPc' = "session"
    /\ reorgSession' = 1
    /\ reorgStep' = 1
    /\ UNCHANGED <<newSessions, calibration, trcVars, sessVars>>

\* Lines 183-184: a session whose new folder exists is passed over.
SkipSession ==
    /\ reorgPc = "session"
    /\ reorgSession <= MaxNewSessions
    /\ reorgStep = 1
    /\ newSessions[reorgSession].exists /\ ~overwriteRestructuring
    /\ reorgSession' = reorgSession + 1
    /\ UNCHANGED <<newSessions, reorgPc, reorgStep, reorgRuns, calibration, trcVars,
                   sessVars>>

\* The re-organization is at a statement of lines 185-214.
AtStatement ==
    /\ reorgPc = "session"
    /\ reorgSession <= MaxNewSessions
    /\ reorgStep > 1 \/ ~newSessions[reorgSession].exists \/ overwriteRestructuring

\* Lines 185-214: the next statement for the session is executed.
ReorgStatement ==
    /\ AtStatement
    /\ newSessions' = [newSessions EXCEPT ![reorgSession] =
                        AfterStatement(@, SessionStatements[reorgStep])]
    /\ IF reorgStep < Len(SessionStatements)
       THEN /\ reorgStep' = reorgStep + 1
            /\ UNCHANGED reorgSession
       ELSE /\ reorgStep' = 1
            /\ reorgSession' = reorgSession + 1
    /\ UNCHANGED <<reorgPc, reorgRuns, calibration, trcVars, sessVars>>

\* shutil.copy2 raises (no source file, no space): the exception ends the script.
CopyFails ==
    /\ AtStatement
    /\ IsCopy(SessionStatements[reorgStep])
    /\ reorgPc' = "failed"
    /\ UNCHANGED <<newSessions, reorgSession, reorgStep, reorgRuns, calibration,
                   trcVars, sessVars>>

\* The loop over the sessions has ended.
EndReorg ==
    /\ reorgPc = "session"
    /\ reorgSession > MaxNewSessions
    /\ reorgPc' = "done"
    /\ UNCHANGED <<newSessions, reorgSession, reorgStep, reorgRuns, calibration,
                   trcVars, sessVars>>

\* ------------------------------------------------------ the specifications
RunStep(p) ==
    \/ ReadMetadata(p)
    \/ LoadTrialInfo(p)
    \/ EstimateNextTrial(p)
    \/ AggregateTrials(p)
    \/ SaveIntrinsicsForDeployment(p)
    \/ OpenTrialFile(p)
    \/ DumpTrialFile(p)
    \/ OpenComparisonFile(p)
    \/ DumpComparisonFile(p)

Readers ==
    \E m \in CameraModels : VisualizePickle(m) \/ ViewPickleFiles(m)

\* One run of the script at a time.
Next ==
    /\ \/ StartRun(1, UserInputs)
       \/ RunStep(1)
       \/ PutSessionMetadata
    /\ UNCHANGED otherScripts

Spec == Init /\ [][Next]_vars

\* One run of the script at a time, and the reading scripts at any moment.
NextReaders ==
    /\ \/ StartRun(1, ReaderInputs)
       \/ RunStep(1)
       \/ PutSessionMetadata
       \/ Readers
    /\ UNCHANGED otherScripts

SpecReaders == Init /\ [][NextReaders]_vars

\* Runs of the script side by side, as separate processes.
NextParallel ==
    /\ \/ \E p \in Procs : StartRun(p, ParallelInputs) \/ RunStep(p)
       \/ PutSessionMetadata
    /\ UNCHANGED otherScripts

SpecParallel == Init /\ [][NextParallel]_vars

\* One run of the script at a time, with writes that fail and records that
\* become unreadable, and the reading scripts at any moment.
NextFaults ==
    /\ \/ StartRun(1, ParallelInputs)
       \/ RunStep(1)
       \/ SaveWriteFails(1)
       \/ \E k \in DeploymentKeys : CorruptRecord(k)
       \/ Readers
    /\ UNCHANGED otherScripts

SpecFaults == Init /\ [][NextFaults]_vars

\* One run of either processing script over the sessions of sessionNames.
NextSessions == EnterSession \/ ProcessTrial \/ LeaveSession

\* Either script stands before its loop over the sessions.
InitSessions ==
    /\ CalibrationInit /\ TrcIdle /\ ReorgInit
    /\ script \in Scripts
    /\ SessionsInit

SpecSessions == InitSessions /\ [][NextSessions]_vars

\* Calls of trc_2_dict on every disk of TRC files.
NextTRC == \E path \in TrcPaths : Call_trc_2_dict(path)

\* Any disk of TRC files, before the first call.
InitTRC == CalibrationInit /\ TrcInit /\ SessionsIdle /\ ReorgInit

SpecTRC == InitTRC /\ [][NextTRC]_vars

\* Runs of the data re-organization, one after the other.
NextReorg ==
    \/ StartReorg
    \/ SkipSession
    \/ ReorgStatement
    \/ CopyFails
    \/ EndReorg

SpecReorg == Init /\ [][NextReorg]_vars

\* ================================================================ properties

\* What a read of a key that is not found may yield.
NotFoundOutcomes == {None, [raised |-> "FileNotFoundError"]}

\* C1: a read of the intrinsics of a key that was never written (no run has
\* saved under it, so its file does not exist) yields None or a
\* FileNotFoundError, never a record, whatever was written under other keys.
C1_UnwrittenKeyNotFound ==
    /\ readResult # NoRead /\ ~store[readResult.key].exists
            => readResult.value \in NotFoundOutcomes
    /\ \A k \in DeploymentKeys :
            ~store[k].exists =>
                /\ load_intrinsics_from_pickle(store[k]) = None
                /\ ViewPickleFile(store[k]) = [raised |-> "FileNotFoundError"]

\* A key that was never written has been read by visualizePickle after another
\* key was written.
C1_Witness ==
    /\ readResult # NoRead
    /\ readResult.reader = "visualizePickle"
    /\ ~store[readResult.key].exists
    /\ readResult.value = None
    /\ \E k \in DeploymentKeys : store[k].exists

\* C2: writes of the store are atomic: whatever file of the store exists holds
\* a complete record, so that a reader, at any moment of a write, loads the
\* previous record, the new record or finds no file, and no run that loads
\* the trial manifest gets an empty or partial document.
C2_WritesAreAtomic ==
    /\ \A k \in DeploymentKeys : store[k].exists => PickleLoad(store[k].bytes).ok
    /\ \A t \in TrialNames :
            trialFiles[t].exists =>
                /\ YamlLoad(trialFiles[t].bytes) # None
                /\ TrialInfoKeys \subseteq DOMAIN YamlLoad(trialFiles[t].bytes)
    /\ comparisonFile.exists => PickleLoad(comparisonFile.bytes).ok
    /\ \A p \in Procs : error[p] \notin {"TypeError", "KeyError"}

\* The DeploymentKeys under which the run of process p has saved its average.
SavedKeys(p) ==
    {<<cameraModel[p], deployedFolderNames[k]>> :
        k \in {j \in DOMAIN deployedFolderNames :
                \/ pc[p] = "save" /\ j < deployedIdx[p]
                \/ pc[p] \in {"openTrialFile", "dumpTrialFile", "openComparison",
                              "dumpComparison", "done"}}}

C4_OneWritersRecord ==
    (\A p \in Procs : pc[p] = "done") =>
        /\ \A p \in Procs :
            YamlLoad(trialFiles[trialFile[p]].bytes) \in
                {TrialInfoOf(q) : q \in {r \in Procs : trialFile[r] = trialFile[p]}}
        /\ PickleLoad(comparisonFile.bytes).ok
        /\ ListOf(PickleLoad(comparisonFile.bytes).items) \in
                {intrinsicComparisons[q] : q \in Procs}

\* The aggregation of the run of process p has started.
Aggregating(p) == pc[p] = "aggregate" \/ CamParamsAverage[p] # None

\* C5: the aggregation of a run is started only when every trial of its list
\* has its outcome (a TrialResult or a trial-level failure), in the order of
\* the list, and a step changes a stored intrinsics record only to the average
\* of a run whose aggregation has completed.
C5_AggregatorIsBarrier ==
    /\ [](\A p \in Procs :
            Aggregating(p) =>
                /\ Len(CamParamList[p]) = Len(trials[p])
                /\ \A i \in DOMAIN trials[p] : CamParamList[p][i].trial = trials[p][i])
    /\ [][\A k \in DeploymentKeys :
            store'[k] # store[k] =>
                \E p \in Procs :
                    /\ CamParamsAverage[p] # None
                    /\ k[1] = cameraModel[p]
                    /\ load_intrinsics_from_pickle(store'[k]) = CamParamsAverage[p]]_vars

\* A run with two trials has aggregated them and saved the average.
C5_Witness ==
    /\ pc[1] = "done"
    /\ Len(trials[1]) > 1
    /\ \A i \in DOMAIN CamParamList[1] : CamParamList[1][i].ok
    /\ store[<<cameraModel[1], "Deployed">>].exists

\* Two TrialResults among the outcomes differ in image size.
MismatchedSizes(outcomes) ==
    \E i, j \in DOMAIN outcomes :
        /\ outcomes[i].ok /\ outcomes[j].ok
        /\ outcomes[i].intrinsics.imageSize # outcomes[j].intrinsics.imageSize

\* C6: a run whose TrialResults differ in image size never has an average or
\* a comparison, never reaches the statements that save, and ends with the
\* configuration error ImageSizeMismatch.
C6_MismatchFailsFast ==
    \A p \in Procs :
        MismatchedSizes(CamParamList[p]) =>
            /\ CamParamsAverage[p] = None
            /\ intrinsicComparisons[p] = <<>>
            /\ pc[p] \in {"estimate", "aggregate", "failed"}
            /\ pc[p] = "failed" => error[p] = "ImageSizeMismatch"

\* A run over trials of different image sizes has ended with the error.
C6_Witness ==
    /\ MismatchedSizes(CamParamList[1])
    /\ pc[1] = "failed"
    /\ error[1] = "ImageSizeMismatch"
    /\ \A k \in DeploymentKeys : ~store[k].exists

\* C7: a trial with exactly MinDetections valid detections gets a TrialResult;
\* a trial with one fewer fails with InsufficientObservations, however many
\* frames without a detection its video has.
C7_DetectionThreshold ==
    \A p \in Procs : \A i \in DOMAIN CamParamList[p] :
        LET o == CamParamList[p][i]
            v == Video(o.trial)
        IN  /\ v.nValid = MinDetections /\ v.intrinsicMat[1] > 0 /\ v.intrinsicMat[2] > 0
                => o.ok /\ o.nObservations = MinDetections
            /\ v.nValid = MinDetections - 1
                => ~o.ok /\ o.error = "InsufficientObservations"

\* One run has estimated a trial at the threshold and a trial one below it,
\* whose video has more frames than the threshold.
C7_Witness ==
    \E i, j \in DOMAIN CamParamList[1] :
        /\ Video(CamParamList[1][i].trial).nValid = MinDetections
        /\ CamParamList[1][i].ok
        /\ Video(CamParamList[1][j].trial).nValid = MinDetections - 1
        /\ Video(CamParamList[1][j].trial).nFrames >= MinDetections
        /\ ~CamParamList[1][j].ok

\* The TrialResults all hold the same intrinsics.
IdenticalResults(results) ==
    \A i \in DOMAIN results : results[i].intrinsics = results[1].intrinsics

\* C8: when the TrialResults of a run are identical, the average equals any
\* one of them and every deviation of the comparison is zero.
C8_IdenticalTrials ==
    \A p \in Procs :
        LET results == SucceededTrials(CamParamList[p]) IN
        CamParamsAverage[p] # None /\ IdenticalResults(results) =>
            /\ CamParamsAverage[p] = results[1].intrinsics
            /\ Len(intrinsicComparisons[p]) = Len(results)
            /\ \A i \in DOMAIN intrinsicComparisons[p] :
                /\ intrinsicComparisons[p][i].intrinsicMat = <<0, 0, 0, 0>>
                /\ intrinsicComparisons[p][i].reprojectionError = 0

\* A run has aggregated three identical TrialResults.
C8_Witness ==
    /\ CamParamsAverage[1] # None
    /\ Len(SucceededTrials(CamParamList[1])) > 2
    /\ IdenticalResults(SucceededTrials(CamParamList[1]))

\* The permutations of 1 .. n.
OrdersOf(n) ==
    {f \in [1 .. n -> 1 .. n] : \A i, j \in 1 .. n : f[i] = f[j] => i = j}

\* The outcomes with the numbers of observations replaced by w.
WithObservations(outcomes, w) ==
    [i \in DOMAIN outcomes |->
        IF outcomes[i].ok THEN [outcomes[i] EXCEPT !.nObservations = w[i]]
        ELSE outcomes[i]]

\* C9: the average of a run is the average of every permutation of its
\* outcomes, and it is the same whatever number of observations each trial
\* contributed.
C9_OrderAndWeightIndependent ==
    \A p \in Procs :
        CamParamsAverage[p] # None =>
            LET n == Len(CamParamList[p]) IN
            /\ \A f \in OrdersOf(n) :
                Aggregate([i \in 1 .. n |-> CamParamList[p][f[i]]]).CamParamsAverage
                    = CamParamsAverage[p]
            /\ \A w \in [1 .. n -> {1, MinDetections, nImages}] :
                Aggregate(WithObservations(CamParamList[p], w)).CamParamsAverage
                    = CamParamsAverage[p]

\* A run has averaged three TrialResults, of MinDetections and of nImages
\* observations, two of them equal and one different, to their mean.
C9_Witness ==
    /\ CamParamsAverage[1] # None
    /\ Len(CamParamList[1]) > 2
    /\ \E i, j \in DOMAIN CamParamList[1] :
        /\ CamParamList[1][i].ok /\ CamParamList[1][j].ok
        /\ CamParamList[1][i].nObservations = MinDetections
        /\ CamParamList[1][j].nObservations = nImages
        /\ CamParamList[1][i].intrinsics # CamParamList[1][j].intrinsics
    /\ CamParamsAverage[1].intrinsicMat = <<1004, 1008, 644, 356>>

\* The statements from the call of computeAverageIntrinsics on.
CallReached ==
    {"estimate", "aggregate", "save", "openTrialFile", "dumpTrialFile",
     "openComparison", "dumpComparison", "done"}

\* The checkerboard parameters lines 20 and 44-49 leave.
MetadataOrDefaults(p) ==
    IF sessionMetadata[p] = None THEN DefaultCheckerBoardParams
    ELSE CheckerBoardParamsOf(sessionMetadata[p])

\* C10 as claimed: the checkerboard parameters of the aggregation are the
\* caller's defaults when the session metadata was absent and those of the
\* metadata when it was present.
C10_Original ==
    \A p \in Procs : pc[p] \in CallReached => CheckerBoardParams[p] = MetadataOrDefaults(p)

\* C10 as amended: when the trial manifest is not requested, the run reaches the
\* aggregation, with the caller's defaults when the session metadata was
\* absent and with the parameters of the metadata when it was present.
C10_MetadataOrDefaults ==
    \A p \in Procs :
        /\ pc[p] = "loadTrialInfo" => CheckerBoardParams[p] = MetadataOrDefaults(p)
        /\ ~loadTrialInfo[p] /\ pc[p] \in CallReached \cup {"failed"} =>
            /\ CheckerBoardParams[p] = MetadataOrDefaults(p)
            /\ pc[p] = "failed" => error[p] \in {"NoTrialSucceeded", "ImageSizeMismatch"}

\* A run that did not request the manifest has finished with the parameters of
\* the metadata, after a run that finished with the defaults.
C10_Witness ==
    /\ nRuns = MaxRuns
    /\ pc[1] = "done"
    /\ ~loadTrialInfo[1]
    /\ sessionMetadata[1] # None
    /\ CheckerBoardParams[1] = [dimensions |-> <<9, 6>>, squareSize |-> 25]
    /\ \E t \in TrialNames :
        /\ t # trialFile[1]
        /\ trialFiles[t].exists
        /\ YamlLoad(trialFiles[t].bytes)["nSquaresWidth"] = 8

\* The error of line 62.
ManifestMissing == "Exception: trialFile doesnt exist"

\* The run of process p asked for the manifest and stands before lines 52-62
\* with no manifest on disk.
ManifestDemandedAndMissing(p) ==
    /\ pc[p] = "loadTrialInfo"
    /\ loadTrialInfo[p]
    /\ ~trialFiles[trialFile[p]].exists

\* C11: a run that asked for the manifest when the manifest file does not
\* exist ends at that statement with the error of line 62; up to and including
\* that statement the run changes no intrinsics record, no manifest and no
\* comparison record, and the failed run has neither outcomes nor an average.
C11_MissingManifestIsFatal ==
    /\ [][\A p \in Procs :
            ManifestDemandedAndMissing(p) /\ pc'[p] # pc[p] =>
                /\ pc'[p] = "failed"
                /\ error'[p] = ManifestMissing
                /\ UNCHANGED <<store, trialFiles, comparisonFile>>]_vars
    /\ [][pc[1] \in {"idle", "done", "failed", "metadata", "loadTrialInfo"} =>
            UNCHANGED <<store, trialFiles, comparisonFile>>]_vars
    /\ [](\A p \in Procs :
            pc[p] = "failed" /\ error[p] = ManifestMissing =>
                /\ CamParamList[p] = <<>>
                /\ CamParamsAverage[p] = None
                /\ intrinsicComparisons[p] = <<>>)

\* A second run asked for a manifest that does not exist and has failed, the
\* records of the first run being on disk.
C11_Witness ==
    /\ pc[1] = "failed"
    /\ error[1] = ManifestMissing
    /\ loadTrialInfo[1]
    /\ ~trialFiles[trialFile[1]].exists
    /\ comparisonFile.exists
    /\ \E k \in DeploymentKeys : store[k].exists

\* The manifest the run of process p reads at lines 53-56.
ManifestOf(p) == YamlLoad(trialFiles[trialFile[p]].bytes)

\* The run of process p asked for the manifest, loaded it and stands between
\* the load and its own writing of the manifest.
RerunFromManifest(p) ==
    /\ loadTrialInfo[p]
    /\ pc[p] \in {"estimate", "aggregate", "save"}

\* C12: a re-run that asked for the manifest aggregates with the ordered trial
\* list, the checkerboard parameters and the camera model the manifest records.
C12_ManifestReproducesRun ==
    \A p \in Procs :
        RerunFromManifest(p) =>
            /\ trials[p] = ManifestOf(p)["trials"]
            /\ CheckerBoardParams[p].dimensions =
                    <<ManifestOf(p)["nSquaresWidth"], ManifestOf(p)["nSquaresHeight"]>>
            /\ CheckerBoardParams[p].squareSize = ManifestOf(p)["squareSize"]
            /\ cameraModel[p] = ManifestOf(p)["cameraModel"]

\* Some manifest on disk records the trials of a run for camera model m.
ManifestRecords(m) ==
    \E t \in TrialNames :
        /\ trialFiles[t].exists
        /\ YamlLoad(trialFiles[t].bytes) # None
        /\ "cameraModel" \in DOMAIN YamlLoad(trialFiles[t].bytes)
        /\ YamlLoad(trialFiles[t].bytes)["cameraModel"] = m

\* C13: whenever no run is under way, every DeploymentKey with stored
\* intrinsics has on disk the trial identifiers of a run for its camera model
\* and a comparison record.
C13_AuditRecordsPerKey ==
    Stopped(1) =>
        \A k \in DeploymentKeys :
            store[k].exists =>
                /\ ManifestRecords(k[1])
                /\ comparisonFile.exists
                /\ PickleLoad(comparisonFile.bytes).ok

\* What the reading scripts give for a record that cannot be loaded.
UnreadableOutcomes == {None, [raised |-> "UnpicklingError"]}

\* C14: a write of the intrinsics that fails ends the run at that statement
\* and changes no record of any key; a read of an unreadable record gives no
\* record (None, or the exception that ends the reading script) and changes no
\* record of any key.
C14_StorageErrorIsLocal ==
    /\ [][\A p \in Procs :
            error'[p] = "OSError" /\ error[p] # "OSError" =>
                /\ pc'[p] = "failed"
                /\ UNCHANGED files]_vars
    /\ [](\A p \in Procs : error[p] = "OSError" => pc[p] = "failed")
    /\ [][readResult' # readResult
            /\ store[readResult'.key].exists
            /\ ~PickleLoad(store[readResult'.key].bytes).ok =>
                /\ readResult'.value \in UnreadableOutcomes
                /\ UNCHANGED files]_vars

\* The write under the second deployed folder of a run has failed after the
\* first was saved, and ViewPickleFiles has met an unreadable record.
C14_Witness ==
    /\ pc[1] = "failed"
    /\ error[1] = "OSError"
    /\ deployedIdx[1] = Len(deployedFolderNames)
    /\ load_intrinsics_from_pickle(store[<<cameraModel[1], deployedFolderNames[1]>>])
            = CamParamsAverage[1]
    /\ readResult # NoRead
    /\ readResult.value = [raised |-> "UnpicklingError"]
    /\ ~PickleLoad(store[readResult.key].bytes).ok

\* The aggregation of the run of process p has returned or raised.
Aggregated(p) ==
    /\ CamParamList[p] # <<>>
    /\ Len(CamParamList[p]) = Len(trials[p])
    /\ pc[p] \notin {"estimate", "aggregate"}

\* C15 as claimed: the trials that failed are skipped and the others averaged,
\* and the calibration fails if and only if no trial has succeeded.
C15_Original ==
    \A p \in Procs :
        Aggregated(p) =>
            /\ pc[p] = "failed" <=> SucceededTrials(CamParamList[p]) = <<>>
            /\ pc[p] # "failed" =>
                CamParamsAverage[p] =
                    Aggregate(SucceededTrials(CamParamList[p])).CamParamsAverage

\* C15 as amended: the trials that failed are skipped and the others averaged;
\* the calibration fails with NoTrialSucceeded if and only if no trial has
\* succeeded, and with trials that succeeded it fails only when they differ in
\* image size.
C15_SkipFailedTrials ==
    \A p \in Procs :
        Aggregated(p) =>
            /\ (pc[p] = "failed" /\ error[p] = "NoTrialSucceeded")
                    <=> SucceededTrials(CamParamList[p]) = <<>>
            /\ (pc[p] = "failed" /\ error[p] = "ImageSizeMismatch")
                    <=> MismatchedSizes(CamParamList[p])
            /\ pc[p] = "failed" => error[p] \in {"NoTrialSucceeded", "ImageSizeMismatch"}
            /\ pc[p] # "failed" =>
                /\ CamParamsAverage[p] =
                        Aggregate(SucceededTrials(CamParamList[p])).CamParamsAverage
                /\ Len(intrinsicComparisons[p]) = Len(SucceededTrials(CamParamList[p]))

\* A run with an ill-conditioned trial and a trial that succeeded has finished
\* with the intrinsics of the one that succeeded as the average.
C15_Witness ==
    /\ pc[1] = "done"
    /\ \E i, j \in DOMAIN CamParamList[1] :
        /\ ~CamParamList[1][i].ok
        /\ CamParamList[1][i].error = "IllConditioned"
        /\ CamParamList[1][j].ok
        /\ CamParamsAverage[1] = CamParamList[1][j].intrinsics
        /\ store[<<cameraModel[1], "Deployed">>] =
                saveCameraParameters(Absent, CamParamList[1][j].intrinsics)

\* C16: a call of trc_2_dict with a path that does not exist raises
\* FileNotFoundError; with a path that holds a TRC file it returns a dict of
\* exactly the keys time and markers, where markers has exactly the marker
\* names of the file as keys, each with the coordinates of that marker.
C16_TrcDict ==
    trcOut # NoCall =>
        LET f == trcDisk[trcOut.path]
            out == trcOut.value
        IN  /\ ~f.exists => out = [raised |-> "FileNotFoundError"]
            /\ f.exists =>
                /\ DOMAIN out = {"time", "markers"}
                /\ Len(out["time"]) = f.num_frames
                /\ DOMAIN out["markers"] = Range(f.marker_names)
                /\ \A name \in Range(f.marker_names) :
                    /\ Len(out["markers"][name]) = f.num_frames
                    /\ \A i \in 1 .. f.num_frames : out["markers"][name][i][1] = name

\* trc_2_dict has returned the dict of a file of two markers and two frames,
\* another path of the disk not existing.
C16_Witness ==
    /\ trcOut # NoCall
    /\ trcDisk[trcOut.path].exists
    /\ Len(trcDisk[trcOut.path].marker_names) > 1
    /\ trcDisk[trcOut.path].num_frames > 1
    /\ DOMAIN trcOut.value["markers"] = Range(trcDisk[trcOut.path].marker_names)
    /\ \E path \in TrcPaths : ~trcDisk[path].exists

\* The trials of the listing whose name has the word.
TrialsWith(l, word) == SelectSeq(l, LAMBDA t : HasWord(t, word))

\* The listing has one extrinsics trial, at most one static trial, and no
\* trial that is both.
OneExtrinsicsTrial(l) ==
    /\ Len(TrialsWith(l, "extrinsics")) = 1
    /\ Len(TrialsWith(l, "static")) <= 1
    /\ \A i \in DOMAIN l : ~(HasWord(l[i], "extrinsics") /\ HasWord(l[i], "static"))

\* C17: for a session with one extrinsics trial and at most one static trial,
\* the list of trials is built, and it is the extrinsics trial, then the static
\* trial if there is one, then the other trials.
C17_ExtrinsicsStaticOthers ==
    count > 0 /\ OneExtrinsicsTrial(trials_tmp) =>
        /\ scriptPc # "failed"
        /\ sessionTrials =
            TrialsWith(trials_tmp, "extrinsics") \o TrialsWith(trials_tmp, "static") \o
            SelectSeq(trials_tmp, LAMBDA t : /\ ~HasWord(t, "extrinsics")
                                             /\ ~HasWord(t, "static"))

\* The number of places of the sequence that hold x.
Occurrences(l, x) == Cardinality({i \in DOMAIN l : l[i] = x})

\* C19: for a session that has an extrinsics trial and a static trial, the
\* list of trials is built and holds every trial folder of the listing once,
\* and when the loop over the list has ended every trial folder has been
\* processed once.
C19_EveryTrialOnce ==
    /\ count > 0
    /\ TrialsWith(trials_tmp, "extrinsics") # <<>>
    /\ TrialsWith(trials_tmp, "static") # <<>>
    =>  /\ scriptPc # "failed"
        /\ \A t \in SessionTrialNames :
            Occurrences(sessionTrials, t) = Occurrences(trials_tmp, t)
        /\ trialNo > Len(sessionTrials) =>
            \A t \in SessionTrialNames :
                Occurrences([i \in DOMAIN calls |-> calls[i].trial_name], t)
                    = Occurrences(trials_tmp, t)

\* C20: what the script builds for a session is what it builds for the same
\* listing when no session came before: the same list, or the same exception.
C20_OwnListingOnly ==
    count > 0 =>
        LET alone == BuildTrials(script, trials_tmp, 0, 0) IN
        IF alone.raised # "none"
        THEN scriptPc = "failed" /\ scriptError = alone.raised
        ELSE scriptPc # "failed" /\ sessionTrials = alone.trials

\* The session folder holds the metadata, the videos and the camera parameters
\* of every camera.
CompleteFolder(folder) ==
    /\ folder.metadata = "adjusted"
    /\ folder.videos = SessionCams \X CamTrials
    /\ folder.parameters = SessionCams

\* C18: a statement of the re-organization changes no session folder that
\* existed when its session was reached, and every session folder that exists
\* when a run has ended, by the end of its loop or by a copy failure, is
\* complete.
C18_ReorganizedOnce ==
    /\ [][\A n \in 1 .. MaxNewSessions :
            newSessions[n].exists /\ ~(reorgPc = "session" /\ reorgSession = n /\ reorgStep > 1)
                => newSessions'[n] = newSessions[n]]_vars
    /\ [](reorgPc \in {"done", "failed"} =>
            \A n \in 1 .. MaxNewSessions :
                newSessions[n].exists => CompleteFolder(newSessions[n]))

\* C21: no call of process_trial of a session has both extrinsicsTrial and
\* scaleModel true, and at most one call of a session has extrinsicsTrial true.
C21_OneRolePerTrial ==
    /\ \A i \in DOMAIN calls : ~(calls[i].extrinsicsTrial /\ calls[i].scaleModel)
    /\ Cardinality({i \in DOMAIN calls : calls[i].extrinsicsTrial}) <= 1

\* The checkerboard parameters the manifest of the run of process p records.
ManifestParams(p) ==
    [dimensions |-> <<ManifestOf(p)["nSquaresWidth"], ManifestOf(p)["nSquaresHeight"]>>,
     squareSize |-> ManifestOf(p)["squareSize"]]

\* C22: the checkerboard parameters a run has at the call of the aggregation
\* are, all three, those of the manifest when the manifest was requested,
\* else those of the session metadata when it was present, else the defaults;
\* and after the start of a run its trial list changes only at lines 52-62,
\* to the list of the requested manifest.
C22_OneSourceByPrecedence ==
    /\ [](\A p \in Procs :
            pc[p] \in {"estimate", "aggregate", "save"} =>
                CheckerBoardParams[p] =
                    IF loadTrialInfo[p] THEN ManifestParams(p)
                    ELSE MetadataOrDefaults(p))
    /\ [][\A p \in Procs :
            trials'[p] # trials[p] /\ ~Stopped(p) =>
                /\ pc[p] = "loadTrialInfo"
                /\ loadTrialInfo[p]
                /\ trials'[p] = ManifestOf(p)["trials"]]_vars

\* A run that requested the manifest and found the session metadata present
\* stands at the aggregation with the parameters and the trials of the
\* manifest, which are neither those of the metadata nor the list entered.
C22_Witness ==
    /\ pc[1] = "aggregate"
    /\ loadTrialInfo[1]
    /\ sessionMetadata[1] # None
    /\ CheckerBoardParams[1] = ManifestParams(1)
    /\ CheckerBoardParams[1] = DefaultCheckerBoardParams
    /\ CheckerBoardParams[1] # CheckerBoardParamsOf(sessionMetadata[1])
    /\ Len(trials[1]) > 1
    /\ trials[1] = ManifestOf(1)["trials"]

====
